---- MODULE Spec2Model ----
(***************************************************************************)
(* State-machine model of the site workflows of BB-Betting:                *)
(*   PinnacleWorkflow   (src/src/workflows/PinnacleWorkflow.ts)            *)
(*   BetOnlineWorkflow  (src/src/workflows/BetOnlineWorkflow.ts)           *)
(*   Sports411Workflow  (src/unnamed/part_001)                             *)
(* Each public operation (login, getBetHistory) is a sequence of steps,    *)
(* one per await of the source.  The page (a DOM seen through selectors)   *)
(* and the browser capability are the environment: the page answers        *)
(* exists()/page.$() from the set of selectors that currently match, and   *)
(* every capability call may raise a fault.                                *)
(***************************************************************************)
EXTENDS Integers, Sequences, FiniteSets, TLC

(***************************************************************************)
(* Bounds of the model (not program constants).                            *)
(***************************************************************************)
\* history fixture: at most MaxPages pages of at most MaxK records
MaxPages == 2
MaxK == 2
\* the pagination loop is followed for at most MaxIter iterations
MaxIter == 4
\* time one poll of the challenge wait may take beyond its sleep (ms)
PollJitter == 1000
\* Sports411: at most MaxMatches candidate locators of one field match at a time
MaxMatches == 1

(***************************************************************************)
(* Program constants.                                                      *)
(***************************************************************************)
captchaTimeout == 60000
PollSleep == 2000
MaxScrolls == 5

Sites == {"pinnacle", "betonline", "sports411"}
\* the two call slots of one workflow instance
Calls == {1, 2}

\* a config field is undefined ("none"), the empty string, or a non-empty string
Usernames == {"none", "", "bettor"}
Passwords == {"none", "", "secret"}

\* messages a capability fault may carry
FaultMsgs == {"Timeout exceeded", "Target closed"}

(***************************************************************************)
(* The page: the set of selectors that currently match an element.         *)
(***************************************************************************)
\* Pinnacle: selectors read by isLoggedIn (the SIGN IN one is also clicked)
PinnacleSelectors ==
  {"button:SIGN IN", "input[placeholder=Username]", "input[type=password]",
   ".account-menu", ".logout"}
\* BetOnline: LOGIN button, #kc-login, balance, reCAPTCHA, GOT IT popup
BetOnlineSelectors ==
  {"button:LOGIN", "#kc-login", "[class*=balance]", "recaptcha", "button:GOT IT"}
\* Sports411: the ordered candidate locators of login()
accountSelectors == <<"input[placeholder=Account]", "input[name=account]", "#account">>
passSelectors ==
  <<"input[placeholder=Password]", "input[name=password]", "#password", "input[type=password]">>
loginBtnSelectors ==
  <<"button:LOG IN", "input[value=LOG IN]", "input.btn.login", ".login-btn">>

Range(s) == {s[i] : i \in 1..Len(s)}

Sports411Selectors == Range(accountSelectors) \cup Range(passSelectors) \cup Range(loginBtnSelectors)

SiteSelectors(s) ==
  CASE s = "pinnacle" -> PinnacleSelectors
    [] s = "betonline" -> BetOnlineSelectors
    [] OTHER -> Sports411Selectors

\* the pages a workflow may be attached to
SitePages(s) ==
  IF s = "sports411"
    THEN {pg \in SUBSET Sports411Selectors :
            \A f \in {accountSelectors, passSelectors, loginBtnSelectors} :
              Cardinality(pg \cap Range(f)) <= MaxMatches}
    ELSE SUBSET SiteSelectors(s)

\* this.exists(selector): a comma-separated selector list matches if any part does
exists(pg, sels) == (pg \cap sels) # {}

(***************************************************************************)
(* isLoggedIn(), per adapter, as a function of the page.                   *)
(***************************************************************************)
Pinnacle_isLoggedIn(pg) ==
  LET hasSignInButton == exists(pg, {"button:SIGN IN"})
      hasUsernameField == exists(pg, {"input[placeholder=Username]"})
      hasPasswordField == exists(pg, {"input[type=password]"})
      hasAccountMenu == exists(pg, {".account-menu"})
      hasLogoutOption == exists(pg, {".logout"})
  IN IF hasSignInButton \/ hasUsernameField \/ hasPasswordField
       THEN FALSE
       ELSE hasAccountMenu \/ hasLogoutOption

BetOnline_isLoggedIn(pg) ==
  LET hasLoginBtn == exists(pg, {"button:LOGIN"})
      hasKcLogin == exists(pg, {"#kc-login"})
      hasBalance == exists(pg, {"[class*=balance]"})
  IN IF hasLoginBtn \/ hasKcLogin THEN FALSE ELSE hasBalance

\* both branches after the login-form test return true, whatever the URL
Sports411_isLoggedIn(pg) ==
  LET hasLoginForm == exists(pg, {"input[placeholder=Account]", "input[name=account]"})
      hasLoginButton == exists(pg, {"button:LOG IN", "input[value=LOG IN]"})
  IN IF hasLoginForm \/ hasLoginButton THEN FALSE ELSE TRUE

isLoggedIn(s, pg) ==
  CASE s = "pinnacle" -> Pinnacle_isLoggedIn(pg)
    [] s = "betonline" -> BetOnline_isLoggedIn(pg)
    [] OTHER -> Sports411_isLoggedIn(pg)

\* the page the site shows once it has accepted a login
LoggedInPage(s) ==
  CASE s = "pinnacle" -> {".account-menu"}
    [] s = "betonline" -> {"[class*=balance]"}
    [] OTHER -> {}

(***************************************************************************)
(* Results.                                                                *)
(***************************************************************************)
\* JavaScript truthiness of an optional string
Truthy(x) == x \notin {"none", ""}

\* variant: any defined value, the empty string included, counts as a credential
HasCredentials_definedOnly(cfg) == cfg.username # "none" /\ cfg.password # "none"

\* `if (username && password)`
HasCredentials(cfg) == Truthy(cfg.username) /\ Truthy(cfg.password)

\* BaseSiteWorkflow.result(success, data, error)
result(success, data, error) ==
  [kind |-> "returned", success |-> success, data |-> data, error |-> error]

\* { success: true, timestamp } of login()
LoginSuccess == [kind |-> "returned", success |-> TRUE, data |-> <<>>, error |-> "none"]
\* { success: false, error, timestamp } of login()
LoginFailure(msg) == [kind |-> "returned", success |-> FALSE, data |-> <<>>, error |-> msg]
\* a fault that leaves the operation as a rejected promise
Thrown(msg) == [kind |-> "thrown", success |-> FALSE, data |-> <<>>, error |-> msg]
NoResult == [kind |-> "none", success |-> FALSE, data |-> <<>>, error |-> "none"]

NoCredentials == LoginFailure("No credentials provided")
NotLoggedIn == result(FALSE, <<>>, "Not logged in. Call login() first.")

VARIABLES
  site,          \* which adapter the workflow instance is
  config,        \* its SiteConfig credentials
  page,          \* selectors matching on the live page
  captchaSolved, \* grecaptcha.getResponse() is non-empty
  sessionSaved,  \* the session store holds a session written by saveSession()
  hist,          \* the history surface: n pages of k records, stuck next, current page, rows loaded
  pc,            \* per call: the step it is at
  op,            \* per call: "login", "getBetHistory" or "isLoggedIn"
  log,           \* per call: the capability calls it has made, in order
  res,           \* per call: what it returned (or threw)
  loc            \* per call: its locals (idx, elapsed, iter, i, allBets, withRange, answers,
                 \* and the array saveSites() is writing: snapshot),
                 \* how its challenge wait went (none, waiting, solved, loggedIn, timeout),
                 \* what the isLoggedIn() before it returned (last) and whether the page
                 \* has changed since that one was called (changed)

VARIABLES
  sites,         \* SiteConfigManager.sites: Map<string, StoredSiteConfig>, in insertion order
  proxies,       \* SiteConfigManager.proxies: Map<string, StoredProxy>, in insertion order
  files,         \* the sites file and the proxies file on disk
  wf             \* the workflow instance: whether it is constructed, and its config.baseUrl

storeVars == <<sites, proxies, files, wf>>

vars == <<site, config, page, captchaSolved, sessionSaved, hist, pc, op, log, res, loc,
          sites, proxies, files, wf>>

\* `static readonly DEFAULT_URL`
DEFAULT_URL(s) ==
  CASE s = "pinnacle" -> "https://probet42.com"
    [] s = "betonline" -> "https://www.betonline.ag"
    [] OTHER -> "https://sports411.ag"

\* a file that does not exist
NoFile == [exists |-> FALSE, content |-> <<>>]

NoHist == [n |-> 0, k |-> 0, stuck |-> FALSE, cur |-> 0, rows |-> 0]
NoLoc == [idx |-> 1, elapsed |-> 0, iter |-> 0, i |-> 0, allBets |-> <<>>,
          withRange |-> FALSE, challenge |-> "none",
          answers |-> <<>>, last |-> "none", changed |-> FALSE, snapshot |-> <<>>]

Init ==
  /\ site \in Sites
  /\ config \in [username : Usernames, password : Passwords]
  /\ page \in SitePages(site)
  /\ captchaSolved = FALSE
  /\ sessionSaved = FALSE
  /\ hist = NoHist
  /\ pc = [c \in Calls |-> "idle"]
  /\ op = [c \in Calls |-> "none"]
  /\ log = [c \in Calls |-> <<>>]
  /\ res = [c \in Calls |-> NoResult]
  /\ loc = [c \in Calls |-> NoLoc]
  /\ sites = <<>>
  /\ proxies = <<>>
  /\ files = [sites |-> NoFile, proxies |-> NoFile]
  /\ wf = [built |-> TRUE, baseUrl |-> DEFAULT_URL(site)]


(***************************************************************************)
(* Building blocks of the steps.                                           *)
(***************************************************************************)
Goto(c, l) == pc' = [pc EXCEPT ![c] = l]
Emit(c, e) == log' = [log EXCEPT ![c] = Append(@, e)]
Return(c, r) == pc' = [pc EXCEPT ![c] = "done"] /\ res' = [res EXCEPT ![c] = r]
SetLoc(c, r) == loc' = [loc EXCEPT ![c] = r]

(***************************************************************************)
(* Starting a call.  A call slot is free when idle or done.  The history   *)
(* surface is loaded anew by each navigation to it.                        *)
(***************************************************************************)
Start(c) ==
  /\ pc[c] \in {"idle", "done"}
  /\ \E o \in {"login", "getBetHistory"}, r \in BOOLEAN :
       /\ op' = [op EXCEPT ![c] = o]
       /\ pc' = [pc EXCEPT ![c] = IF o = "login" THEN "l_getPage" ELSE "h_getPage"]
       /\ SetLoc(c, [NoLoc EXCEPT !.withRange = (o = "getBetHistory" /\ r)])
       /\ (o = "login" => ~r)
  /\ log' = [log EXCEPT ![c] = <<>>]
  /\ res' = [res EXCEPT ![c] = NoResult]
  /\ hist' = NoHist
  /\ UNCHANGED <<site, config, page, captchaSolved, sessionSaved>>

(***************************************************************************)
(* login(): the part the three adapters share.                             *)
(***************************************************************************)
\* `const page = this.getPage()`, outside any try block
login_getPage(c) ==
  /\ pc[c] = "l_getPage"
  /\ \/ Goto(c, "l_probe") /\ UNCHANGED res
     \/ \E m \in FaultMsgs : Return(c, Thrown(m))
  /\ UNCHANGED <<site, config, page, captchaSolved, sessionSaved, hist, op, log, loc>>

\* where login() goes when the first probe is false and credentials are configured
AutoFillEntry(s) ==
  CASE s = "pinnacle" -> "p_waitFor"
    [] s = "betonline" -> "b_findLogin"
    [] OTHER -> "s_account"

\* where login() goes when the first probe is false and credentials are missing:
\* Pinnacle falls back to super.login(), the others return the fixed failure
login_noCredentials(c) ==
  IF site = "pinnacle"
    THEN Goto(c, "super_login") /\ UNCHANGED res
    ELSE Return(c, NoCredentials)

\* variant: the early return is missing and the auto-fill sequence runs anyway
login_alreadyLoggedIn_reauth(c) == Goto(c, AutoFillEntry(site)) /\ UNCHANGED res

\* `if (await this.isLoggedIn()) return { success: true }`, outside any try block
login_alreadyLoggedIn(c) == Return(c, LoginSuccess)

login_probe(c) ==
  /\ pc[c] = "l_probe"
  /\ \/ /\ isLoggedIn(site, page)
        /\ Emit(c, "probeT")
        /\ login_alreadyLoggedIn(c)
        /\ UNCHANGED loc
     \/ /\ ~isLoggedIn(site, page)
        /\ Emit(c, "probeF")
        /\ IF HasCredentials(config)
             THEN Goto(c, AutoFillEntry(site)) /\ UNCHANGED res
             ELSE login_noCredentials(c)
        /\ UNCHANGED loc
     \/ /\ \E m \in FaultMsgs : Return(c, Thrown(m))
        /\ Emit(c, "probeX")
        /\ UNCHANGED loc
  /\ UNCHANGED <<site, config, page, captchaSolved, sessionSaved, hist, op>>

\* variant: every adapter's catch block returns the fault as a failure
login_catch_returns(c, m) == Return(c, LoginFailure(m))

\* the catch block of login(): Sports411 and BetOnline return the fault's
\* message as a failure; Pinnacle logs it and falls through to super.login()
login_catch(c, m) ==
  IF site = "pinnacle"
    THEN Goto(c, "super_login") /\ UNCHANGED res
    ELSE Return(c, LoginFailure(m))

\* a capability call inside login()'s try block that does not touch the page:
\* it is made (logged), then either completes or raises a fault
login_call(c, from, ev, to) ==
  /\ pc[c] = from
  /\ Emit(c, ev)
  /\ \/ Goto(c, to) /\ UNCHANGED res
     \/ \E m \in FaultMsgs : login_catch(c, m)
  /\ UNCHANGED <<site, config, page, captchaSolved, sessionSaved, hist, op, loc>>

\* variant: the step goes on without pausing
login_delay_unpaced(c, from, to) ==
  /\ pc[c] = from
  /\ Goto(c, to)
  /\ UNCHANGED <<site, config, page, captchaSolved, sessionSaved, hist, op, res, loc, log>>

\* this.randomDelay(min, max): a pacing delay; it cannot fail
login_delay(c, from, to) ==
  /\ pc[c] = from
  /\ Emit(c, "delay")
  /\ Goto(c, to)
  /\ UNCHANGED <<site, config, page, captchaSolved, sessionSaved, hist, op, res, loc>>

\* this.saveSession() followed by `return { success: true }`
login_saveSession(c, from) ==
  /\ pc[c] = from
  /\ Emit(c, "saveSession")
  /\ \/ Return(c, LoginSuccess) /\ sessionSaved' = TRUE
     \/ (\E m \in FaultMsgs : login_catch(c, m)) /\ UNCHANGED sessionSaved
  /\ UNCHANGED <<site, config, page, captchaSolved, hist, op, loc>>

\* what the site shows after the submit control was clicked: the login is
\* accepted (never while an unsolved challenge is on the page) or rejected
AfterSubmit(s, pg, solved) ==
  {pg} \cup (IF "recaptcha" \in pg /\ ~solved
              THEN {}
              ELSE {LoggedInPage(s)} \cup
                   (IF s = "betonline" THEN {LoggedInPage(s) \cup {"button:GOT IT"}} ELSE {}))

(***************************************************************************)
(* Sports411Workflow.login()                                               *)
(***************************************************************************)
\* one turn of `for (const sel of selectors) if (await this.exists(sel)) {...; break}`
Sports411_tryLocator(c, from, sels, found, none) ==
  /\ pc[c] = from
  /\ \/ /\ sels[loc[c].idx] \in page
        /\ Goto(c, found)
        /\ UNCHANGED <<res, loc>>
     \/ /\ sels[loc[c].idx] \notin page
        /\ IF loc[c].idx < Len(sels)
             THEN Goto(c, from) /\ SetLoc(c, [loc[c] EXCEPT !.idx = @ + 1])
             ELSE Goto(c, none) /\ SetLoc(c, [loc[c] EXCEPT !.idx = 1])
        /\ UNCHANGED res
     \/ /\ \E m \in FaultMsgs : login_catch(c, m)
        /\ UNCHANGED loc
  /\ UNCHANGED <<site, config, page, captchaSolved, sessionSaved, hist, op, log>>

\* this.type(sel, value) / this.click(sel) on the locator found, then `break`
Sports411_useLocator(c, from, ev, to, pages) ==
  /\ pc[c] = from
  /\ Emit(c, ev)
  /\ \/ /\ Goto(c, to) /\ UNCHANGED res
        /\ page' \in pages
     \/ /\ \E m \in FaultMsgs : login_catch(c, m)
        /\ UNCHANGED page
  /\ SetLoc(c, [loc[c] EXCEPT !.idx = 1])
  /\ UNCHANGED <<site, config, captchaSolved, sessionSaved, hist, op>>

Sports411_login(c) ==
  /\ site = "sports411"
  /\ \/ Sports411_tryLocator(c, "s_account", accountSelectors, "s_typeAccount", "s_delay1")
     \/ Sports411_useLocator(c, "s_typeAccount", "type_user", "s_delay1", {page})
     \/ login_delay(c, "s_delay1", "s_password")
     \/ Sports411_tryLocator(c, "s_password", passSelectors, "s_typePassword", "s_delay2")
     \/ Sports411_useLocator(c, "s_typePassword", "type_pass", "s_delay2", {page})
     \/ login_delay(c, "s_delay2", "s_loginBtn")
     \/ Sports411_tryLocator(c, "s_loginBtn", loginBtnSelectors, "s_clickLogin", "s_delay3")
     \/ Sports411_useLocator(c, "s_clickLogin", "click_submit", "s_delay3",
                             AfterSubmit(site, page, captchaSolved))
     \/ login_delay(c, "s_delay3", "s_saveSession")
     \/ login_saveSession(c, "s_saveSession")

(***************************************************************************)
(* BetOnlineWorkflow.login()                                               *)
(***************************************************************************)
\* `const loginBtn = await page.$(LOGIN); if (loginBtn) {...}`
BetOnline_findLogin(c) ==
  /\ pc[c] = "b_findLogin"
  /\ \/ /\ "button:LOGIN" \in page
        /\ Goto(c, "b_clickLogin") /\ UNCHANGED res
     \/ /\ "button:LOGIN" \notin page
        /\ Goto(c, "b_waitFor") /\ UNCHANGED res
     \/ \E m \in FaultMsgs : login_catch(c, m)
  /\ UNCHANGED <<site, config, page, captchaSolved, sessionSaved, hist, op, log, loc>>

\* `await loginBtn.click()`: the site may open its login form, with or without a challenge
BetOnline_clickLogin(c) ==
  /\ pc[c] = "b_clickLogin"
  /\ Emit(c, "click_open")
  /\ \/ /\ Goto(c, "b_delayOpen") /\ UNCHANGED res
        /\ \E form \in SUBSET {"#kc-login", "recaptcha"} : page' = page \cup form
     \/ /\ \E m \in FaultMsgs : login_catch(c, m)
        /\ UNCHANGED page
  /\ UNCHANGED <<site, config, captchaSolved, sessionSaved, hist, op, loc>>

\* `while (Date.now() - startTime < captchaTimeout)`
CaptchaWaiting(elapsed) == elapsed < captchaTimeout

\* `const hasRecaptcha = await this.exists(...); if (hasRecaptcha) { startTime = now; while ...`
BetOnline_checkCaptcha(c) ==
  /\ pc[c] = "b_checkCaptcha"
  /\ \/ /\ "recaptcha" \in page
        /\ Goto(c, IF CaptchaWaiting(0) THEN "b_evaluate" ELSE "b_clickSubmit")
        /\ SetLoc(c, [loc[c] EXCEPT !.elapsed = 0, !.challenge = "waiting"])
        /\ UNCHANGED res
     \/ /\ "recaptcha" \notin page
        /\ Goto(c, "b_clickSubmit")
        /\ UNCHANGED <<res, loc>>
     \/ /\ \E m \in FaultMsgs : login_catch(c, m)
        /\ UNCHANGED loc
  /\ UNCHANGED <<site, config, page, captchaSolved, sessionSaved, hist, op, log>>

\* `const solved = await page.evaluate(...).catch(() => false); if (solved) break;`
\* the human may have solved the challenge by now; a fault reads as "not solved"
BetOnline_evaluate(c) ==
  /\ pc[c] = "b_evaluate"
  /\ \E s \in {captchaSolved, TRUE}, faulted \in BOOLEAN :
       /\ captchaSolved' = s
       /\ Goto(c, IF s /\ ~faulted THEN "b_clickSubmit" ELSE "b_loopProbe")
       /\ SetLoc(c, [loc[c] EXCEPT !.challenge = IF s /\ ~faulted THEN "solved" ELSE @])
  /\ UNCHANGED <<site, config, page, sessionSaved, hist, op, log, res>>

\* variant: a true probe only leaves the loop, and the submit click follows
BetOnline_loopProbe_fallsThrough(c) ==
  /\ pc[c] = "b_loopProbe"
  /\ \/ /\ \E pg \in {page, LoggedInPage(site)} :
             /\ page' = pg
             /\ captchaSolved' = (captchaSolved \/ pg # page)
             /\ Emit(c, IF isLoggedIn(site, pg) THEN "probeT" ELSE "probeF")
             /\ Goto(c, IF isLoggedIn(site, pg) THEN "b_clickSubmit" ELSE "b_sleep")
             /\ SetLoc(c, [loc[c] EXCEPT !.challenge =
                                           IF isLoggedIn(site, pg) THEN "loggedIn" ELSE @])
        /\ UNCHANGED res
     \/ /\ \E m \in FaultMsgs : login_catch(c, m)
        /\ Emit(c, "probeX")
        /\ UNCHANGED <<page, captchaSolved, loc>>
  /\ UNCHANGED <<site, config, sessionSaved, hist, op>>

\* `if (await this.isLoggedIn()) { await this.saveSession(); return success }`
\* the human may have solved the challenge and submitted the form by now
BetOnline_loopProbe(c) ==
  /\ pc[c] = "b_loopProbe"
  /\ \/ /\ \E pg \in {page, LoggedInPage(site)} :
             /\ page' = pg
             /\ captchaSolved' = (captchaSolved \/ pg # page)
             /\ Emit(c, IF isLoggedIn(site, pg) THEN "probeT" ELSE "probeF")
             /\ Goto(c, IF isLoggedIn(site, pg) THEN "b_loopSave" ELSE "b_sleep")
             /\ SetLoc(c, [loc[c] EXCEPT !.challenge =
                                           IF isLoggedIn(site, pg) THEN "loggedIn" ELSE @])
        /\ UNCHANGED res
     \/ /\ \E m \in FaultMsgs : login_catch(c, m)
        /\ Emit(c, "probeX")
        /\ UNCHANGED <<page, captchaSolved, loc>>
  /\ UNCHANGED <<site, config, sessionSaved, hist, op>>

\* `await this.sleep(2000)`, then the loop condition again
BetOnline_sleep(c) ==
  /\ pc[c] = "b_sleep"
  /\ \E j \in {0, PollJitter} :
       LET e == loc[c].elapsed + PollSleep + j
       IN /\ SetLoc(c, [loc[c] EXCEPT !.elapsed = e,
                                       !.challenge = IF CaptchaWaiting(e) THEN @ ELSE "timeout"])
          /\ Goto(c, IF CaptchaWaiting(e) THEN "b_evaluate" ELSE "b_clickSubmit")
  /\ UNCHANGED <<site, config, page, captchaSolved, sessionSaved, hist, op, log, res>>

\* `await this.click('#kc-login')`
BetOnline_clickSubmit(c) ==
  /\ pc[c] = "b_clickSubmit"
  /\ Emit(c, "click_submit")
  /\ \/ /\ "#kc-login" \in page
        /\ page' \in AfterSubmit(site, page, captchaSolved)
        /\ Goto(c, "b_delay3") /\ UNCHANGED res
     \/ /\ \E m \in FaultMsgs : login_catch(c, m)
        /\ UNCHANGED page
  /\ UNCHANGED <<site, config, captchaSolved, sessionSaved, hist, op, loc>>

\* `try { const gotItBtn = await page.$(GOT IT); if (gotItBtn) {...} } catch {}`
BetOnline_findPopup(c) ==
  /\ pc[c] = "b_findPopup"
  /\ \/ "button:GOT IT" \in page /\ Goto(c, "b_clickPopup")
     \/ "button:GOT IT" \notin page /\ Goto(c, "b_saveSession")
     \/ Goto(c, "b_saveSession")
  /\ UNCHANGED <<site, config, page, captchaSolved, sessionSaved, hist, op, log, res, loc>>

\* `await gotItBtn.click()` inside the inner try: a fault is swallowed
BetOnline_clickPopup(c) ==
  /\ pc[c] = "b_clickPopup"
  /\ Emit(c, "click_popup")
  /\ \/ page' = page \ {"button:GOT IT"} /\ Goto(c, "b_delayPopup")
     \/ UNCHANGED page /\ Goto(c, "b_saveSession")
  /\ UNCHANGED <<site, config, captchaSolved, sessionSaved, hist, op, res, loc>>

BetOnline_login(c) ==
  /\ site = "betonline"
  /\ \/ BetOnline_findLogin(c)
     \/ BetOnline_clickLogin(c)
     \/ login_delay(c, "b_delayOpen", "b_waitFor")
     \/ login_call(c, "b_waitFor", "waitFor", "b_typeUsername")
     \/ login_call(c, "b_typeUsername", "type_user", "b_delay1")
     \/ login_delay(c, "b_delay1", "b_typePassword")
     \/ login_call(c, "b_typePassword", "type_pass", "b_delay2")
     \/ login_delay(c, "b_delay2", "b_checkCaptcha")
     \/ BetOnline_checkCaptcha(c)
     \/ BetOnline_evaluate(c)
     \/ BetOnline_loopProbe(c)
     \/ login_saveSession(c, "b_loopSave")
     \/ BetOnline_sleep(c)
     \/ BetOnline_clickSubmit(c)
     \/ login_delay(c, "b_delay3", "b_findPopup")
     \/ BetOnline_findPopup(c)
     \/ BetOnline_clickPopup(c)
     \/ login_delay(c, "b_delayPopup", "b_saveSession")
     \/ login_saveSession(c, "b_saveSession")

(***************************************************************************)
(* PinnacleWorkflow.login()                                                *)
(***************************************************************************)
\* `await this.click('button:has-text("SIGN IN")')`
Pinnacle_clickSignIn(c) ==
  /\ pc[c] = "p_clickSignIn"
  /\ Emit(c, "click_submit")
  /\ \/ /\ "button:SIGN IN" \in page
        /\ page' \in AfterSubmit(site, page, captchaSolved)
        /\ Goto(c, "p_delay3") /\ UNCHANGED res
     \/ /\ \E m \in FaultMsgs : login_catch(c, m)
        /\ UNCHANGED page
  /\ UNCHANGED <<site, config, captchaSolved, sessionSaved, hist, op, loc>>

\* `if (await this.isLoggedIn()) { saveSession; return success } else { log }`
Pinnacle_confirm(c) ==
  /\ pc[c] = "p_confirm"
  /\ \/ /\ isLoggedIn(site, page)
        /\ Emit(c, "probeT")
        /\ Goto(c, "p_saveSession") /\ UNCHANGED res
     \/ /\ ~isLoggedIn(site, page)
        /\ Emit(c, "probeF")
        /\ Goto(c, "super_login") /\ UNCHANGED res
     \/ /\ \E m \in FaultMsgs : login_catch(c, m)
        /\ Emit(c, "probeX")
  /\ UNCHANGED <<site, config, page, captchaSolved, sessionSaved, hist, op, loc>>

\* BaseSiteWorkflow.login(): the manual completion path.  The human either
\* completes the login in the browser, which the workflow confirms and
\* persists, or does not, and the wait ends in a failure result.
Base_login(c) ==
  /\ pc[c] = "super_login"
  /\ \/ /\ page' = LoggedInPage(site)
        /\ log' = [log EXCEPT ![c] = @ \o <<"manual", "probeT", "saveSession">>]
        /\ sessionSaved' = TRUE
        /\ Return(c, LoginSuccess)
     \/ /\ log' = [log EXCEPT ![c] = @ \o <<"manual", "probeF">>]
        /\ Return(c, LoginFailure("Login timeout"))
        /\ UNCHANGED <<page, sessionSaved>>
  /\ UNCHANGED <<site, config, captchaSolved, hist, op, loc>>

Pinnacle_login(c) ==
  /\ site = "pinnacle"
  /\ \/ login_call(c, "p_waitFor", "waitFor", "p_typeUsername")
     \/ login_call(c, "p_typeUsername", "type_user", "p_delay1")
     \/ login_delay(c, "p_delay1", "p_typePassword")
     \/ login_call(c, "p_typePassword", "type_pass", "p_delay2")
     \/ login_delay(c, "p_delay2", "p_clickSignIn")
     \/ Pinnacle_clickSignIn(c)
     \/ login_delay(c, "p_delay3", "p_confirm")
     \/ Pinnacle_confirm(c)
     \/ login_saveSession(c, "p_saveSession")
     \/ Base_login(c)

(***************************************************************************)
(* getBetHistory(): the whole body is inside one try block.                *)
(***************************************************************************)
\* variant: the catch block returns the records collected so far
history_catch_partial(c, m) == Return(c, result(FALSE, loc[c].allBets, m))

\* `catch (err) { return this.result(false, [], err.message) }`
history_catch(c, m) == Return(c, result(FALSE, <<>>, m))

history_getPage(c) ==
  /\ pc[c] = "h_getPage"
  /\ \/ Goto(c, "h_probe") /\ UNCHANGED res
     \/ \E m \in FaultMsgs : history_catch(c, m)
  /\ UNCHANGED <<site, config, page, captchaSolved, sessionSaved, hist, op, log, loc>>

\* what getBetHistory() does once the probe is true
history_loggedIn(c) ==
  CASE site = "pinnacle" ->
         Return(c, result(TRUE, <<>>, "Not implemented - need to discover history page"))
    [] site = "betonline" -> Goto(c, "hb_clickBalance") /\ UNCHANGED res
    [] OTHER -> Goto(c, "hs_clickHistory") /\ UNCHANGED res

\* variant: the login check is missing and the extraction runs anyway
history_notLoggedIn_proceeds(c) == history_loggedIn(c)

\* `if (!(await this.isLoggedIn())) return this.result(false, [], 'Not logged in...')`
history_notLoggedIn(c) == Return(c, NotLoggedIn)

history_probe(c) ==
  /\ pc[c] = "h_probe"
  /\ \/ /\ isLoggedIn(site, page)
        /\ Emit(c, "probeT")
        /\ history_loggedIn(c)
     \/ /\ ~isLoggedIn(site, page)
        /\ Emit(c, "probeF")
        /\ history_notLoggedIn(c)
     \/ /\ \E m \in FaultMsgs : history_catch(c, m)
        /\ Emit(c, "probeX")
  /\ UNCHANGED <<site, config, page, captchaSolved, sessionSaved, hist, op, loc>>

\* a capability call of getBetHistory() that changes neither the page nor a local
history_call(c, from, ev, to) ==
  /\ pc[c] = from
  /\ Emit(c, ev)
  /\ \/ Goto(c, to) /\ UNCHANGED res
     \/ \E m \in FaultMsgs : history_catch(c, m)
  /\ UNCHANGED <<site, config, page, captchaSolved, sessionSaved, hist, op, loc>>

(***************************************************************************)
(* Sports411Workflow.getBetHistory(): paginated extraction.                *)
(***************************************************************************)
\* the history surfaces the site may show: n pages of k tickets; a stuck
\* next control stays enabled on the last page and redisplays it
Sports411Fixtures ==
  {[n |-> n, k |-> k, stuck |-> st, cur |-> 1, rows |-> 0] :
     n \in 1..MaxPages, k \in 1..MaxK, st \in BOOLEAN}

\* the ticket numbers shown on page p of the surface h, top to bottom
PageTickets(h, p) == [j \in 1..h.k |-> (p - 1) * h.k + j]

\* the object the in-page map() builds for one .ticket element (no status field)
Sports411_record(ticket) == [betId |-> ticket, status |-> "undefined", site |-> "sports411"]

\* `page.evaluate(() => Array.from(querySelectorAll('app-history-ticket .ticket')).map(...))`
Sports411_scrape(h) == [j \in 1..h.k |-> Sports411_record(PageTickets(h, h.cur)[j])]

\* variant: the page's records are put in front of those collected so far
pushAll_prepend(allBets, bets) == bets \o allBets

\* `allBets.push(...bets)`
pushAll(allBets, bets) == allBets \o bets

\* `page.$('#nextBtn a:not(.disabled)')` finds an enabled next control
nextEnabled(h) == h.stuck \/ h.cur < h.n

\* `await this.click('text=History'); await this.sleep(2000)`
Sports411_clickHistory(c) ==
  /\ pc[c] = "hs_clickHistory"
  /\ Emit(c, "click_nav")
  /\ \/ /\ hist' \in Sports411Fixtures
        /\ Goto(c, IF loc[c].withRange THEN "hs_setRange" ELSE "hs_scrape")
        /\ UNCHANGED res
     \/ /\ \E m \in FaultMsgs : history_catch(c, m)
        /\ UNCHANGED hist
  /\ UNCHANGED <<site, config, page, captchaSolved, sessionSaved, op, loc>>

\* `await this.click('button:has-text("Custom Range")'); await this.sleep(2000)`
Sports411_clickRange(c) ==
  /\ pc[c] = "hs_clickRange"
  /\ Emit(c, "click_range")
  /\ \/ /\ hist' = [hist EXCEPT !.cur = 1]
        /\ Goto(c, "hs_scrape") /\ UNCHANGED res
     \/ /\ \E m \in FaultMsgs : history_catch(c, m)
        /\ UNCHANGED hist
  /\ UNCHANGED <<site, config, page, captchaSolved, sessionSaved, op, loc>>

\* `while (hasNextPage) { const bets = await page.evaluate(...); allBets.push(...bets);`
Sports411_scrapePage(c) ==
  /\ pc[c] = "hs_scrape"
  /\ loc[c].iter < MaxIter
  /\ Emit(c, "scrape")
  /\ \/ /\ SetLoc(c, [loc[c] EXCEPT !.iter = @ + 1,
                                     !.allBets = pushAll(@, Sports411_scrape(hist))])
        /\ Goto(c, "hs_findNext") /\ UNCHANGED res
     \/ /\ \E m \in FaultMsgs : history_catch(c, m)
        /\ UNCHANGED loc
  /\ UNCHANGED <<site, config, page, captchaSolved, sessionSaved, hist, op>>

\* `const nextBtn = await page.$(...); if (nextBtn) {...} else { hasNextPage = false }`
\* and, once the loop has ended, `return this.result(true, allBets)`
Sports411_findNext(c) ==
  /\ pc[c] = "hs_findNext"
  /\ \/ /\ nextEnabled(hist)
        /\ Goto(c, "hs_clickNext") /\ UNCHANGED res
     \/ /\ ~nextEnabled(hist)
        /\ Return(c, result(TRUE, loc[c].allBets, "none"))
     \/ \E m \in FaultMsgs : history_catch(c, m)
  /\ UNCHANGED <<site, config, page, captchaSolved, sessionSaved, hist, op, log, loc>>

\* `await nextBtn.click(); await this.sleep(1500)`
Sports411_clickNext(c) ==
  /\ pc[c] = "hs_clickNext"
  /\ Emit(c, "click_next")
  /\ \/ /\ hist' = [hist EXCEPT !.cur = IF @ < hist.n THEN @ + 1 ELSE @]
        /\ Goto(c, "hs_scrape") /\ UNCHANGED res
     \/ /\ \E m \in FaultMsgs : history_catch(c, m)
        /\ UNCHANGED hist
  /\ UNCHANGED <<site, config, page, captchaSolved, sessionSaved, op, loc>>

Sports411_getBetHistory(c) ==
  /\ site = "sports411"
  /\ \/ Sports411_clickHistory(c)
     \/ history_call(c, "hs_setRange", "evaluate_range", "hs_clickRange")
     \/ Sports411_clickRange(c)
     \/ Sports411_scrapePage(c)
     \/ Sports411_findNext(c)
     \/ Sports411_clickNext(c)

(***************************************************************************)
(* BetOnlineWorkflow.getBetHistory(): infinite-scroll extraction.          *)
(***************************************************************************)
\* the text of the amount column of row j
RowText(j) ==
  CASE j % 4 = 1 -> "Won $10.00"
    [] j % 4 = 2 -> "Lost $10.00"
    [] j % 4 = 3 -> "Cancelled"
    [] OTHER -> "$10.00"

\* the status expression of the in-page map()
BetOnline_status(text) ==
  CASE text = "Won $10.00" -> "Won"
    [] text = "Lost $10.00" -> "Lost"
    [] text = "Cancelled" -> "Cancelled"
    [] OTHER -> "Pending"

BetOnline_record(j) == [betId |-> j, status |-> BetOnline_status(RowText(j)), site |-> "betonline"]

\* `page.evaluate(() => Array.from(querySelectorAll('.bet-history__table__body__rows')).map(...))`
BetOnline_scrape(h) == [j \in 1..h.rows |-> BetOnline_record(j)]

\* variant: an off-by-one loop bound
scrollAgain_inclusive(i) == i <= MaxScrolls

\* `for (let i = 0; i < 5; i++)`
scrollAgain(i) == i < MaxScrolls

\* `await this.click('text=Bet History'); await this.sleep(2000)`: the table
\* opens with the rows rendered so far
BetOnline_clickBetHistory(c) ==
  /\ pc[c] = "hb_clickBetHistory"
  /\ Emit(c, "click_nav")
  /\ \/ /\ \E r \in 0..1 : hist' = [NoHist EXCEPT !.rows = r]
        /\ Goto(c, IF scrollAgain(0) THEN "hb_scroll" ELSE "hb_scrape")
        /\ SetLoc(c, [loc[c] EXCEPT !.i = 0])
        /\ UNCHANGED res
     \/ /\ \E m \in FaultMsgs : history_catch(c, m)
        /\ UNCHANGED <<hist, loc>>
  /\ UNCHANGED <<site, config, page, captchaSolved, sessionSaved, op>>

\* `await page.evaluate(() => window.scrollTo(...)); await this.sleep(800)`; i++
\* the scroll may make one more row appear
BetOnline_scroll(c) ==
  /\ pc[c] = "hb_scroll"
  /\ Emit(c, "scroll")
  /\ \/ /\ \E more \in 0..1 : hist' = [hist EXCEPT !.rows = @ + more]
        /\ SetLoc(c, [loc[c] EXCEPT !.i = @ + 1])
        /\ Goto(c, IF scrollAgain(loc[c].i + 1) THEN "hb_scroll" ELSE "hb_scrape")
        /\ UNCHANGED res
     \/ /\ \E m \in FaultMsgs : history_catch(c, m)
        /\ UNCHANGED <<hist, loc>>
  /\ UNCHANGED <<site, config, page, captchaSolved, sessionSaved, op>>

\* `const bets = await page.evaluate(...); return this.result(true, bets)`
BetOnline_scrapeAll(c) ==
  /\ pc[c] = "hb_scrape"
  /\ Emit(c, "scrape")
  /\ \/ Return(c, result(TRUE, BetOnline_scrape(hist), "none"))
     \/ \E m \in FaultMsgs : history_catch(c, m)
  /\ UNCHANGED <<site, config, page, captchaSolved, sessionSaved, hist, op, loc>>

BetOnline_getBetHistory(c) ==
  /\ site = "betonline"
  /\ \/ history_call(c, "hb_clickBalance", "click_nav", "hb_clickBetHistory")
     \/ BetOnline_clickBetHistory(c)
     \/ BetOnline_scroll(c)
     \/ BetOnline_scrapeAll(c)

(***************************************************************************)
(* A call at a time: the workflow is driven by a sequential script.        *)
(***************************************************************************)
Next ==
  \/ Start(1) /\ UNCHANGED storeVars
  \/ login_getPage(1) /\ UNCHANGED storeVars
  \/ login_probe(1) /\ UNCHANGED storeVars
  \/ Sports411_login(1) /\ UNCHANGED storeVars
  \/ BetOnline_login(1) /\ UNCHANGED storeVars
  \/ Pinnacle_login(1) /\ UNCHANGED storeVars
  \/ history_getPage(1) /\ UNCHANGED storeVars
  \/ history_probe(1) /\ UNCHANGED storeVars
  \/ Sports411_getBetHistory(1) /\ UNCHANGED storeVars
  \/ BetOnline_getBetHistory(1) /\ UNCHANGED storeVars

Spec == Init /\ [][Next]_vars

(***************************************************************************)
(* Overlapping login() calls on one workflow instance.  A call runs from   *)
(* one await to the next without interruption; at an await the other call  *)
(* may run.  login() holds no flag or lock, so the second call enters the  *)
(* same code as the first.  The second call is started while the first is  *)
(* suspended at an await.                                                  *)
(***************************************************************************)
OverlapSites == {"sports411", "pinnacle"}

InitOverlap == Init /\ site \in OverlapSites /\ HasCredentials(config)

InFlight(c) == pc[c] \notin {"idle", "done"}

login_enter(c) ==
  /\ pc[c] = "idle"
  /\ c = 1 \/ InFlight(1)
  /\ op' = [op EXCEPT ![c] = "login"]
  /\ Goto(c, "l_getPage")
  /\ UNCHANGED <<site, config, page, captchaSolved, sessionSaved, hist, log, res, loc>>

NextOverlap ==
  \/ \E c \in Calls : login_enter(c) /\ UNCHANGED storeVars
  \/ \E c \in Calls : login_getPage(c) /\ UNCHANGED storeVars
  \/ \E c \in Calls : login_probe(c) /\ UNCHANGED storeVars
  \/ \E c \in Calls : Sports411_login(c) /\ UNCHANGED storeVars
  \/ \E c \in Calls : Pinnacle_login(c) /\ UNCHANGED storeVars

SpecOverlap == InitOverlap /\ [][NextOverlap]_vars

(***************************************************************************)
(* isLoggedIn() called as a public operation.  Each `await this.exists()`  *)
(* is a step that reads the page as it is then; the site may change the    *)
(* page between two steps and between two calls.                           *)
(***************************************************************************)
\* the existence queries of isLoggedIn(), in the order they are awaited
ProbeQueries(s) ==
  CASE s = "pinnacle" ->
         <<{"button:SIGN IN"}, {"input[placeholder=Username]"}, {"input[type=password]"},
           {".account-menu"}, {".logout"}>>
    [] s = "betonline" -> <<{"button:LOGIN"}, {"#kc-login"}, {"[class*=balance]"}>>
    [] OTHER -> <<{"input[placeholder=Account]", "input[name=account]"},
                  {"button:LOG IN", "input[value=LOG IN]"}>>

\* how many of the queries test for a logged-out indicator
LoggedOutQueries(s) == IF s = "pinnacle" THEN 3 ELSE 2

AnyTrue(a) == \E j \in 1..Len(a) : a[j]

\* what isLoggedIn() does with the answers it has: "F" / "T" to return,
\* "more" to go on with the next query
ProbeVerdict(s, a) ==
  CASE Len(a) < LoggedOutQueries(s) -> "more"
    [] Len(a) = LoggedOutQueries(s) ->
         IF AnyTrue(a) THEN "F" ELSE IF s = "sports411" THEN "T" ELSE "more"
    [] Len(a) < Len(ProbeQueries(s)) -> "more"
    [] OTHER -> IF AnyTrue(SubSeq(a, LoggedOutQueries(s) + 1, Len(a))) THEN "T" ELSE "F"

\* isLoggedIn() resolves to a bare boolean, kept in the success field
Answer(b) == [kind |-> "returned", success |-> b, data |-> <<>>, error |-> "none"]

isLoggedIn_enter(c) ==
  /\ pc[c] \in {"idle", "done"}
  /\ op' = [op EXCEPT ![c] = "isLoggedIn"]
  /\ Goto(c, "i_query")
  /\ SetLoc(c, [NoLoc EXCEPT !.last =
                  IF op[c] = "isLoggedIn" /\ res[c].kind = "returned" /\ ~loc[c].changed
                    THEN (IF res[c].success THEN "T" ELSE "F")
                    ELSE "none"])
  /\ log' = [log EXCEPT ![c] = <<>>]
  /\ res' = [res EXCEPT ![c] = NoResult]
  /\ UNCHANGED <<site, config, page, captchaSolved, sessionSaved, hist>>

\* variant: the probe clicks the element it finds
isLoggedIn_query_clicks(c) ==
  /\ pc[c] = "i_query"
  /\ LET a == Append(loc[c].answers, exists(page, ProbeQueries(site)[Len(loc[c].answers) + 1]))
         v == ProbeVerdict(site, a)
     IN \/ /\ SetLoc(c, [loc[c] EXCEPT !.answers = a])
           /\ IF v = "more"
                THEN Emit(c, "exists") /\ UNCHANGED <<pc, res>>
                ELSE /\ log' = [log EXCEPT ![c] =
                                  @ \o (IF site = "sports411" /\ v = "T"
                                          THEN <<"exists", "url">> ELSE <<"exists">>)]
                     /\ Return(c, Answer(v = "T"))
        \/ \E m \in FaultMsgs : Return(c, Thrown(m)) /\ Emit(c, "exists") /\ UNCHANGED loc
  /\ page' = page \ ProbeQueries(site)[Len(loc[c].answers) + 1]
  /\ UNCHANGED <<site, config, captchaSolved, sessionSaved, hist, op>>

\* one `await this.exists(...)`, and what follows it up to the next await
isLoggedIn_query(c) ==
  /\ pc[c] = "i_query"
  /\ LET a == Append(loc[c].answers, exists(page, ProbeQueries(site)[Len(loc[c].answers) + 1]))
         v == ProbeVerdict(site, a)
     IN \/ /\ SetLoc(c, [loc[c] EXCEPT !.answers = a])
           /\ IF v = "more"
                THEN Emit(c, "exists") /\ UNCHANGED <<pc, res>>
                ELSE /\ log' = [log EXCEPT ![c] =
                                  @ \o (IF site = "sports411" /\ v = "T"
                                          THEN <<"exists", "url">> ELSE <<"exists">>)]
                     /\ Return(c, Answer(v = "T"))
        \/ \E m \in FaultMsgs : Return(c, Thrown(m)) /\ Emit(c, "exists") /\ UNCHANGED loc
  /\ UNCHANGED <<site, config, page, captchaSolved, sessionSaved, hist, op>>

\* the site shows another page: an element appears or goes away
PageChange ==
  /\ \E x \in SiteSelectors(site) :
       /\ page' = IF x \in page THEN page \ {x} ELSE page \cup {x}
       /\ page' \in SitePages(site)
  /\ loc' = [c \in Calls |-> [loc[c] EXCEPT !.changed = TRUE]]
  /\ UNCHANGED <<site, config, captchaSolved, sessionSaved, hist, pc, op, log, res>>

InitProbe == Init /\ config = [username |-> "bettor", password |-> "secret"]

NextProbe ==
  \/ isLoggedIn_enter(1) /\ UNCHANGED storeVars
  \/ isLoggedIn_query(1) /\ UNCHANGED storeVars
  \/ PageChange /\ UNCHANGED storeVars

SpecProbe == InitProbe /\ [][NextProbe]_vars

(***************************************************************************)
(* SiteConfigManager (src/unnamed/part_000): the config store.  A Map is a *)
(* sequence of [key, val] entries with distinct keys, in insertion order.  *)
(* An absent or undefined field of a record is "none".                     *)
(***************************************************************************)
SiteIds == {"sports411", "betonline"}
ProxyNames == {"p1", "p2"}
SiteFields == {"id", "username", "password", "baseUrl", "proxyName", "createdAt"}

\* the site configs callers add
SiteInputs ==
  {[id |-> i, username |-> "bettor", password |-> "secret", baseUrl |-> b, proxyName |-> n,
    createdAt |-> "none"] :
     i \in SiteIds, b \in {"none", "https://mirror.example"}, n \in {"none", "p1"}}

\* a Partial<StoredSiteConfig> that holds one key
Update(f, v) == [g \in SiteFields |-> IF g = f THEN v ELSE "absent"]
\* (`id` is a key of Partial<StoredSiteConfig> like any other)
SiteUpdates ==
  {Update("password", "changed"), Update("baseUrl", "none"), Update("proxyName", "p2")}
    \cup {Update("id", i) : i \in SiteIds}

\* the proxies callers add
ProxyInputs ==
  {[name |-> "p1", server |-> "http://p1:8080", username |-> "none", password |-> "none"],
   [name |-> "p1", server |-> "http://p1:3128", username |-> "pu", password |-> "pw"],
   [name |-> "p2", server |-> "http://p2:8080", username |-> "pu", password |-> "pw"]}

\* what the sites file holds when the store is constructed: nothing, or the
\* sites a previous run saved
DiskInputs ==
  {NoFile} \cup
  {[exists |-> TRUE, content |-> <<[s EXCEPT !.createdAt = "t0"]>>] :
     s \in {x \in SiteInputs : x.baseUrl = "none" /\ x.proxyName = "p1"}}

MapKeys(m) == {m[i].key : i \in 1..Len(m)}
MapHas(m, k) == k \in MapKeys(m)
\* Map.get(k), where k is a key of the map
MapGet(m, k) == m[CHOOSE i \in 1..Len(m) : m[i].key = k].val
\* Map.set(k, v): an existing key keeps its place
MapSet(m, k, v) ==
  IF MapHas(m, k)
    THEN [i \in 1..Len(m) |-> IF m[i].key = k THEN [key |-> k, val |-> v] ELSE m[i]]
    ELSE Append(m, [key |-> k, val |-> v])
KeyIsNot(k, e) == e.key # k
\* Map.delete(k)
MapDelete(m, k) == SelectSeq(m, LAMBDA e : KeyIsNot(k, e))
\* Array.from(map.values())
MapValues(m) == [i \in 1..Len(m) |-> m[i].val]

\* `await writeFile(file, JSON.stringify(values, null, 2))`
Written(values) == [exists |-> TRUE, content |-> values]

\* saveSites() / saveProxies(): the file as the save leaves it
saveSites(m) == Written(MapValues(m))
saveProxies(m) == Written(MapValues(m))

\* the loop of loadSites() / loadProxies() over the parsed array
RECURSIVE LoadInto(_, _, _)
LoadInto(m, list, keyField) ==
  IF list = <<>> THEN m
  ELSE LoadInto(MapSet(m, Head(list)[keyField], Head(list)), Tail(list), keyField)

\* `{ ...existing, ...updates }`
Merge(existing, updates) ==
  [f \in SiteFields |-> IF updates[f] = "absent" THEN existing[f] ELSE updates[f]]

\* `new Date().toISOString()`
Now == "now"

\* load(): loadSites() then loadProxies(); a file that is missing leaves its map alone
load ==
  /\ sites' = IF files.sites.exists
                THEN LoadInto(<<>>, files.sites.content, "id") ELSE sites
  /\ proxies' = IF files.proxies.exists
                  THEN LoadInto(<<>>, files.proxies.content, "name") ELSE proxies
  /\ UNCHANGED <<files, wf>>

addSite(s) ==
  /\ sites' = MapSet(sites, s.id,
                     [s EXCEPT !.createdAt = IF Truthy(s.createdAt) THEN @ ELSE Now])
  /\ files' = [files EXCEPT !.sites = saveSites(sites')]
  /\ UNCHANGED <<proxies, wf>>

deleteSite(id) ==
  /\ sites' = MapDelete(sites, id)
  /\ files' = IF MapHas(sites, id) THEN [files EXCEPT !.sites = saveSites(sites')] ELSE files
  /\ UNCHANGED <<proxies, wf>>

updateSite(id, updates) ==
  /\ IF MapHas(sites, id)
       THEN /\ sites' = MapSet(sites, id, Merge(MapGet(sites, id), updates))
            /\ files' = [files EXCEPT !.sites = saveSites(sites')]
       ELSE UNCHANGED <<sites, files>>
  /\ UNCHANGED <<proxies, wf>>

addProxy(p) ==
  /\ proxies' = MapSet(proxies, p.name, p)
  /\ files' = [files EXCEPT !.proxies = saveProxies(proxies')]
  /\ UNCHANGED <<sites, wf>>

deleteProxy(name) ==
  /\ proxies' = MapDelete(proxies, name)
  /\ files' = IF MapHas(proxies, name)
                THEN [files EXCEPT !.proxies = saveProxies(proxies')] ELSE files
  /\ UNCHANGED <<sites, wf>>

\* getProxyForSite() returns a ProxyConfig or undefined
Undefined == [defined |-> FALSE]
ProxyConfig(proxy) ==
  [defined |-> TRUE, server |-> proxy.server, username |-> proxy.username,
   password |-> proxy.password]

\* variant: a site that names no proxy gets the first proxy of the store
getProxyForSite_default(m, px, siteId) ==
  IF ~MapHas(m, siteId) THEN Undefined
  ELSE IF ~Truthy(MapGet(m, siteId).proxyName)
    THEN (IF px = <<>> THEN Undefined ELSE ProxyConfig(px[1].val))
  ELSE IF ~MapHas(px, MapGet(m, siteId).proxyName) THEN Undefined
  ELSE ProxyConfig(MapGet(px, MapGet(m, siteId).proxyName))

getProxyForSite(m, px, siteId) ==
  IF ~MapHas(m, siteId) THEN Undefined
  ELSE IF ~Truthy(MapGet(m, siteId).proxyName) THEN Undefined
  ELSE IF ~MapHas(px, MapGet(m, siteId).proxyName) THEN Undefined
  ELSE ProxyConfig(MapGet(px, MapGet(m, siteId).proxyName))

\* the workflow is constructed from getSite(id): the constructor passes
\* `{ ...config, baseUrl: config.baseUrl || DEFAULT_URL }` to its base class
Workflow_new ==
  /\ ~wf.built
  /\ MapHas(sites, site)
  /\ LET c == MapGet(sites, site)
     IN /\ config' = [username |-> c.username, password |-> c.password]
        /\ wf' = [built |-> TRUE,
                  baseUrl |-> IF Truthy(c.baseUrl) THEN c.baseUrl ELSE DEFAULT_URL(site)]
  /\ UNCHANGED <<sites, proxies, files>>

\* variant: the workflow looks its config up in the store when it uses it
ThisConfig_live ==
  IF wf.built /\ MapHas(sites, site)
    THEN [username |-> MapGet(sites, site).username,
          password |-> MapGet(sites, site).password,
          baseUrl |-> IF Truthy(MapGet(sites, site).baseUrl)
                        THEN MapGet(sites, site).baseUrl ELSE DEFAULT_URL(site)]
    ELSE [username |-> config.username, password |-> config.password, baseUrl |-> wf.baseUrl]

\* `this.config`, as login() reads it
ThisConfig ==
  [username |-> config.username, password |-> config.password, baseUrl |-> wf.baseUrl]

workflowVars == <<site, config, page, captchaSolved, sessionSaved, hist, pc, op, log, res, loc>>

InitStore ==
  /\ site \in SiteIds
  /\ config = [username |-> "none", password |-> "none"]
  /\ page = {}
  /\ captchaSolved = FALSE
  /\ sessionSaved = FALSE
  /\ hist = NoHist
  /\ pc = [c \in Calls |-> "idle"]
  /\ op = [c \in Calls |-> "none"]
  /\ log = [c \in Calls |-> <<>>]
  /\ res = [c \in Calls |-> NoResult]
  /\ loc = [c \in Calls |-> NoLoc]
  /\ sites = <<>>
  /\ proxies = <<>>
  /\ files \in [sites : DiskInputs, proxies : {NoFile}]
  /\ wf = [built |-> FALSE, baseUrl |-> "none"]

NextStore ==
  \/ load /\ UNCHANGED workflowVars
  \/ \E s \in SiteInputs : addSite(s) /\ UNCHANGED workflowVars
  \/ \E id \in SiteIds : deleteSite(id) /\ UNCHANGED workflowVars
  \/ \E id \in SiteIds, u \in SiteUpdates : updateSite(id, u) /\ UNCHANGED workflowVars
  \/ \E p \in ProxyInputs : addProxy(p) /\ UNCHANGED workflowVars
  \/ \E n \in ProxyNames : deleteProxy(n) /\ UNCHANGED workflowVars
  \/ Workflow_new /\ UNCHANGED <<site, page, captchaSolved, sessionSaved, hist, pc, op, log, res, loc>>

SpecStore == InitStore /\ [][NextStore]_vars

(***************************************************************************)
(* Overlapping mutations of one SiteConfigManager.  addSite, deleteSite    *)
(* and updateSite change the map at once and then await saveSites(), which *)
(* is suspended twice: in `await this.ensureDir(...)` and in               *)
(* `await writeFile(...)`.  The array written is taken between the two.    *)
(* Nothing orders the completion of two writes of the same file.           *)
(***************************************************************************)
frameOfSave == <<site, config, page, captchaSolved, sessionSaved, hist, proxies, wf>>

\* a mutation is called: the first at any time, the second while the first is suspended
MayEnter(c) == pc[c] = "idle" /\ (c = 1 \/ InFlight(1))

addSite_call(c, s) ==
  /\ MayEnter(c)
  /\ op' = [op EXCEPT ![c] = "addSite"]
  /\ sites' = MapSet(sites, s.id,
                     [s EXCEPT !.createdAt = IF Truthy(s.createdAt) THEN @ ELSE Now])
  /\ Goto(c, "c_ensureDir")
  /\ UNCHANGED <<frameOfSave, files, log, res, loc>>

deleteSite_call(c, id) ==
  /\ MayEnter(c)
  /\ op' = [op EXCEPT ![c] = "deleteSite"]
  /\ sites' = MapDelete(sites, id)
  /\ IF MapHas(sites, id)
       THEN Goto(c, "c_ensureDir") /\ UNCHANGED res
       ELSE Return(c, Answer(FALSE))
  /\ UNCHANGED <<frameOfSave, files, log, loc>>

updateSite_call(c, id, updates) ==
  /\ MayEnter(c)
  /\ op' = [op EXCEPT ![c] = "updateSite"]
  /\ IF MapHas(sites, id)
       THEN /\ sites' = MapSet(sites, id, Merge(MapGet(sites, id), updates))
            /\ Goto(c, "c_ensureDir") /\ UNCHANGED res
       ELSE /\ Return(c, Answer(FALSE))
            /\ UNCHANGED sites
  /\ UNCHANGED <<frameOfSave, files, log, loc>>

\* `await this.ensureDir(this.sitesFile)` is over;
\* `const sites = Array.from(this.sites.values())`, and the write is begun
saveSites_ensureDir(c) ==
  /\ pc[c] = "c_ensureDir"
  /\ \/ /\ SetLoc(c, [loc[c] EXCEPT !.snapshot = MapValues(sites)])
        /\ Emit(c, "ensureDir")
        /\ Goto(c, "c_writeFile") /\ UNCHANGED res
     \/ /\ \E m \in FaultMsgs : Return(c, Thrown(m))
        /\ Emit(c, "ensureDir")
        /\ UNCHANGED loc
  /\ UNCHANGED <<frameOfSave, sites, files, op>>

\* `await writeFile(this.sitesFile, JSON.stringify(sites, null, 2))` completes
saveSites_writeFile(c) ==
  /\ pc[c] = "c_writeFile"
  /\ Emit(c, "writeFile")
  /\ \/ /\ files' = [files EXCEPT !.sites = Written(loc[c].snapshot)]
        /\ Return(c, Answer(TRUE))
     \/ /\ \E m \in FaultMsgs : Return(c, Thrown(m))
        /\ UNCHANGED files
  /\ UNCHANGED <<frameOfSave, sites, op, loc>>

InitSave == InitStore /\ site = "sports411"

NextSave ==
  \/ \E c \in Calls, s \in SiteInputs : addSite_call(c, s)
  \/ \E c \in Calls, id \in SiteIds : deleteSite_call(c, id)
  \/ \E c \in Calls, id \in SiteIds, u \in SiteUpdates : updateSite_call(c, id, u)
  \/ \E c \in Calls : saveSites_ensureDir(c)
  \/ \E c \in Calls : saveSites_writeFile(c)

SpecSave == InitSave /\ [][NextSave]_vars

(***************************************************************************)
(* Properties.                                                           *)
(***************************************************************************)
\* the capability calls that make up an authentication attempt
AuthActions ==
  {"click_open", "waitFor", "type_user", "type_pass", "click_submit", "click_popup", "saveSession"}
\* the capability calls that navigate, click or scrape the history surface
HistoryActions == {"click_nav", "evaluate_range", "click_range", "scroll", "scrape", "click_next"}

Has(c, e) == \E j \in 1..Len(log[c]) : log[c][j] = e
Count(c, e) == Cardinality({j \in 1..Len(log[c]) : log[c][j] = e})
\* position of the first occurrence of e in the call's log (0: none)
First(c, e) == IF Has(c, e) THEN CHOOSE j \in 1..Len(log[c]) :
                                   log[c][j] = e /\ \A h \in 1..(j - 1) : log[c][h] # e
               ELSE 0
Last(c, e) == IF Has(c, e) THEN CHOOSE j \in 1..Len(log[c]) :
                                  log[c][j] = e /\ \A h \in (j + 1)..Len(log[c]) : log[c][h] # e
              ELSE 0

Done(c) == pc[c] = "done"
Returned(c) == Done(c) /\ res[c].kind = "returned"
\* the call was ended by a capability fault reported as its result
FaultReported(c) == res[c].error \in FaultMsgs
FirstProbe(c) == IF Len(log[c]) >= 1 THEN log[c][1] ELSE "none"

\* C1: a login() whose first isLoggedIn() probe is true returns success at
\* once and makes no authentication call (type, click, wait-for-selector,
\* saveSession); so a login() right after one that left the page logged in
\* does not authenticate again.
C1_LoginAlreadyLoggedIn ==
  \A c \in Calls :
    (op[c] = "login" /\ FirstProbe(c) = "probeT") =>
      /\ Returned(c)
      /\ res[c].success
      /\ \A j \in 1..Len(log[c]) : log[c][j] \notin AuthActions \cup {"delay", "manual"}

\* a second login(), after one that submitted credentials and saved the
\* session, has found the page logged in and returned
C1_Witness ==
  /\ op[1] = "login" /\ Done(1) /\ log[1] = <<"probeT">>
  /\ res[1] = LoginSuccess
  /\ sessionSaved /\ HasCredentials(config)

\* C2: getBetHistory() on a page that is not logged in returns a failure
\* result with an empty payload and an error message, and neither navigates,
\* clicks nor scrapes.
C2_HistoryNotLoggedIn ==
  \A c \in Calls :
    (op[c] = "getBetHistory" /\ FirstProbe(c) = "probeF") =>
      /\ Returned(c)
      /\ ~res[c].success
      /\ res[c].data = <<>>
      /\ res[c].error # "none"
      /\ \A j \in 1..Len(log[c]) : log[c][j] \notin HistoryActions

C2_Witness ==
  /\ op[1] = "getBetHistory" /\ Done(1) /\ log[1] = <<"probeF">>
  /\ ~isLoggedIn(site, page)
  /\ res[1].kind = "returned" /\ ~res[1].success /\ res[1].data = <<>>

\* the config lacks a username or a password (undefined or empty)
LacksCredentials(cfg) == cfg.username \in {"none", ""} \/ cfg.password \in {"none", ""}

\* C3: Sports411 and BetOnline: with a username or password missing and the
\* page not logged in, login() returns the fixed failure 'No credentials
\* provided' at once, having made no capability call beyond the probe.
C3_NoCredentials ==
  \A c \in Calls :
    (/\ site \in {"sports411", "betonline"}
     /\ op[c] = "login"
     /\ LacksCredentials(config)
     /\ FirstProbe(c) = "probeF") =>
      /\ Returned(c)
      /\ ~res[c].success
      /\ res[c].error = "No credentials provided"
      /\ log[c] = <<"probeF">>

C3_Witness ==
  /\ site = "sports411" /\ op[1] = "login" /\ Done(1)
  /\ config.username = "" /\ config.password = "secret"
  /\ res[1] = NoCredentials

\* C4: BetOnline login(), challenge detected before submission: a wait that
\* runs out with the challenge unsolved and the page not logged in ends in a
\* failure result; a challenge solved, or a login seen, at a poll before the
\* timeout ends in a success result (unless a capability fault is reported).
C4_ChallengeWait ==
  \A c \in Calls :
    (site = "betonline" /\ op[c] = "login" /\ Returned(c)) =>
      /\ (loc[c].challenge = "timeout" => ~res[c].success)
      /\ (loc[c].challenge \in {"solved", "loggedIn"} /\ ~FaultReported(c) => res[c].success)

\* C5: Sports411 getBetHistory() over a surface of n pages runs its
\* extraction loop at most n + 1 times, stuck next control or not.
C5_PaginationBounded ==
  \A c \in Calls :
    (site = "sports411" /\ op[c] = "getBetHistory" /\ hist.n >= 1) =>
      loc[c].iter <= hist.n + 1

\* C6: Sports411 getBetHistory() over n pages of k records, next control
\* enabled on pages 1..n-1 only, returns success with exactly the n*k source
\* records, each once, in source order.
C6_PaginationComplete ==
  \A c \in Calls :
    (/\ site = "sports411" /\ op[c] = "getBetHistory" /\ Done(c)
     /\ hist.n >= 1 /\ ~hist.stuck
     /\ ~FaultReported(c)) =>
      /\ res[c].kind = "returned" /\ res[c].success
      /\ Len(res[c].data) = hist.n * hist.k
      /\ \A j \in 1..Len(res[c].data) : res[c].data[j].betId = j

C6_Witness ==
  /\ site = "sports411" /\ op[1] = "getBetHistory" /\ Done(1)
  /\ hist.n = 2 /\ hist.k = 2 /\ ~hist.stuck
  /\ res[1].success /\ Len(res[1].data) = 4
  /\ Count(1, "click_next") = 1

\* C7: BetOnline getBetHistory() scrolls at most MaxScrolls (5) times,
\* extracts the rows once, after the last scroll, and then returns, also
\* when every scroll made new content appear.
C7_ScrollBounded ==
  \A c \in Calls :
    (site = "betonline" /\ op[c] = "getBetHistory") =>
      /\ Count(c, "scroll") <= MaxScrolls
      /\ Count(c, "scrape") <= 1
      /\ Has(c, "scrape") =>
           /\ Count(c, "scroll") = MaxScrolls
           /\ Last(c, "scroll") < First(c, "scrape")
           /\ Returned(c)
      /\ (Returned(c) /\ res[c].success) =>
           /\ Count(c, "scrape") = 1
           /\ Len(res[c].data) = hist.rows

\* every one of the five scrolls made a new row appear, and the call returned them all
C7_Witness ==
  /\ site = "betonline" /\ op[1] = "getBetHistory" /\ Done(1)
  /\ res[1].success
  /\ hist.rows >= MaxScrolls /\ Len(res[1].data) = hist.rows
  /\ Count(1, "scroll") = MaxScrolls

\* C8: a login() that clicked the submit control returns success only if an
\* isLoggedIn() probe made after that click returned true.
C8_SuccessOnlyIfConfirmed ==
  \A c \in Calls :
    (op[c] = "login" /\ Returned(c) /\ res[c].success /\ Has(c, "click_submit")) =>
      \E j \in (Last(c, "click_submit") + 1)..Len(log[c]) : log[c][j] = "probeT"

\* C9: within one login() saveSession is called at most once, and only after
\* an isLoggedIn() probe of that call returned true.
C9_SaveOnlyIfConfirmed ==
  \A c \in Calls :
    op[c] = "login" =>
      /\ Count(c, "saveSession") <= 1
      /\ Has(c, "saveSession") =>
           \E j \in 1..(First(c, "saveSession") - 1) : log[c][j] = "probeT"

\* C10: no public operation ends by throwing: a fault of a capability call
\* at any step of login() or getBetHistory() comes back as a failure result
\* carrying the fault's message.
C10_NothingThrown ==
  \A c \in Calls : Done(c) => res[c].kind = "returned"

\* the call entered a credential or clicked the submit control
Authenticates(c) ==
  Has(c, "type_user") \/ Has(c, "type_pass") \/ Has(c, "click_submit")

\* C11: when two login() calls on the same workflow instance overlap, at
\* most one of them performs the credential-entry and submit sequence.
C11_OneAuthenticationInFlight ==
  (op[1] = "login" /\ op[2] = "login") => ~(Authenticates(1) /\ Authenticates(2))

\* `status: 'pending' | 'won' | 'lost' | 'void' | 'cashout'`
StatusValues == {"pending", "won", "lost", "void", "cashout"}

\* C12: every record in the payload of a successful getBetHistory(), for
\* every adapter, has a status among pending, won, lost, void, cashout.
C12_StatusInDomain ==
  \A c \in Calls :
    (op[c] = "getBetHistory" /\ Returned(c) /\ res[c].success) =>
      \A j \in 1..Len(res[c].data) : res[c].data[j].status \in StatusValues

\* what a returned isLoggedIn() resolved to
Verdict(c) == IF res[c].success THEN "T" ELSE "F"

\* C13: isLoggedIn() is side-effect-free and idempotent: it makes only
\* existence and URL queries, each of its steps leaves the page and the
\* workflow's state as they were, and a call that follows another with no
\* page change since that one was called returns the same value.
C13_ProbeIsPure ==
  /\ [](\A c \in Calls :
          op[c] = "isLoggedIn" =>
            /\ \A j \in 1..Len(log[c]) : log[c][j] \in {"exists", "url"}
            /\ (Returned(c) /\ loc[c].last # "none" /\ ~loc[c].changed) =>
                 Verdict(c) = loc[c].last)
  /\ [][(\E c \in Calls : pc[c] = "i_query" /\ log'[c] # log[c]) =>
          UNCHANGED <<site, config, page, captchaSolved, sessionSaved, hist>>]_vars

\* a second isLoggedIn(), with the page as the first one found it, has
\* returned true as the first did
C13_Witness ==
  /\ op[1] = "isLoggedIn" /\ Returned(1)
  /\ loc[1].last = "T" /\ ~loc[1].changed /\ res[1].success
  /\ Len(log[1]) >= 2

\* a pacing delay lies strictly between positions a and b of the call's log
DelayBetween(c, a, b) == \E j \in (a + 1)..(b - 1) : log[c][j] = "delay"

FieldSkipped(c) ==
  \/ Count(c, "delay") >= 1 /\ ~Has(c, "type_user")
  \/ Count(c, "delay") >= 2 /\ ~Has(c, "type_pass")
  \/ Count(c, "delay") >= 3 /\ ~Has(c, "click_submit")

\* C15: a Sports411 login() that finds none of the candidate locators of
\* some field (account, password, submit control) returns a failure result
\* with a message; it does not go on to report success.
C15_MissingFieldFails ==
  \A c \in Calls :
    (site = "sports411" /\ op[c] = "login" /\ Returned(c) /\ FieldSkipped(c)) =>
      (~res[c].success /\ res[c].error # "none")

\* C16: once a workflow has been constructed from a config of the store, no
\* addSite, updateSite or deleteSite (nor any other store operation) changes
\* the credentials and base URL the workflow uses; a workflow constructed
\* after an edit gets the config as the store holds it then.
C16_ConfigImmutable ==
  [][/\ wf.built => (wf'.built /\ ThisConfig' = ThisConfig)
     /\ (~wf.built /\ wf'.built) =>
          /\ MapHas(sites, site)
          /\ ThisConfig'.username = MapGet(sites, site).username
          /\ ThisConfig'.password = MapGet(sites, site).password
          /\ Truthy(MapGet(sites, site).baseUrl) =>
               ThisConfig'.baseUrl = MapGet(sites, site).baseUrl]_vars

\* the store's entry was updated after the workflow was constructed from it:
\* the store holds the new password and base URL, the workflow the old ones
C16_Witness ==
  /\ wf.built /\ MapHas(sites, site)
  /\ MapGet(sites, site).password = "changed" /\ ThisConfig.password = "secret"
  /\ MapGet(sites, site).baseUrl = "none" /\ ThisConfig.baseUrl = "https://mirror.example"

\* C17: after any sequence of addSite, updateSite, deleteSite, addProxy and
\* deleteProxy, getProxyForSite(id) returns the server, username and password
\* of the proxy now stored under the site's proxyName exactly when the site
\* exists, has a proxyName and that proxy exists, and undefined otherwise;
\* deleting a proxy leaves the sites, and the sites file, as they were.
C17_WeakProxyLink ==
  /\ [](\A id \in SiteIds :
          LET r == getProxyForSite(sites, proxies, id)
              linked == \E i \in 1..Len(sites), j \in 1..Len(proxies) :
                          /\ sites[i].key = id
                          /\ sites[i].val.proxyName \notin {"none", ""}
                          /\ proxies[j].key = sites[i].val.proxyName
          IN /\ r.defined <=> linked
             /\ r.defined =>
                  \E j \in 1..Len(proxies) :
                    /\ proxies[j].key = MapGet(sites, id).proxyName
                    /\ r.server = proxies[j].val.server
                    /\ r.username = proxies[j].val.username
                    /\ r.password = proxies[j].val.password)
  /\ [][Len(proxies') < Len(proxies) => (sites' = sites /\ files'.sites = files.sites)]_vars

\* the proxy a site names was stored and has been deleted: the site still
\* names it, and getProxyForSite() returns undefined
C17_Witness ==
  /\ MapHas(sites, site) /\ MapGet(sites, site).proxyName = "p1"
  /\ ~MapHas(proxies, "p1")
  /\ files.proxies.exists /\ files.proxies.content = <<>>
  /\ getProxyForSite(sites, proxies, site) = Undefined

\* C18: a failure result of getBetHistory() has an empty payload and an
\* error message; in particular a Sports411 call that faults after it has
\* scraped pages returns success = false, no record, and the fault's message.
C18_FailureHasNoPayload ==
  \A c \in Calls :
    (op[c] = "getBetHistory" /\ Returned(c) /\ ~res[c].success) =>
      /\ res[c].data = <<>>
      /\ res[c].error \in FaultMsgs \cup {NotLoggedIn.error}
      /\ Has(c, "scrape") => res[c].error \in FaultMsgs

\* a Sports411 getBetHistory() had collected records when a fault ended it
C18_Witness ==
  /\ site = "sports411" /\ op[1] = "getBetHistory" /\ Returned(1)
  /\ ~res[1].success /\ res[1].data = <<>> /\ FaultReported(1)
  /\ loc[1].allBets # <<>> /\ loc[1].iter >= 1

\* the result the call returned is the one super.login() returned
ViaSuperLogin(c) == Has(c, "manual")
\* the call's own auto-fill confirmed the login: after the submit click an
\* isLoggedIn() probe returned true, the session was saved, success returned
AutoFillConfirmed(c) ==
  /\ ~Has(c, "manual") /\ Has(c, "click_submit")
  /\ Len(log[c]) >= 2
  /\ log[c][Len(log[c]) - 1] = "probeT" /\ log[c][Len(log[c])] = "saveSession"
  /\ Last(c, "click_submit") < Len(log[c]) - 1

\* C19: Pinnacle's login() falls back to super.login() on every path that
\* does not confirm a login (no credentials, a fault during auto-fill, a
\* false probe after the submit) and returns what super.login() returns; the
\* auto-fill path itself never returns a failure result, and it saves the
\* session only after its probe after the submit returned true.
C19_PinnacleFallsBack ==
  \A c \in Calls :
    (site = "pinnacle" /\ op[c] = "login" /\ FirstProbe(c) = "probeF") =>
      /\ Returned(c) =>
           \/ ViaSuperLogin(c)
           \/ AutoFillConfirmed(c) /\ res[c] = LoginSuccess
      /\ (Returned(c) /\ ~res[c].success) => ViaSuperLogin(c)
      /\ (Done(c) /\ ~HasCredentials(config)) =>
           (ViaSuperLogin(c) /\ log[c][2] = "manual")
      /\ \A j \in 1..Len(log[c]) :
           (log[c][j] = "saveSession" /\ \A h \in 1..j : log[c][h] # "manual") =>
             (j > 2 /\ log[c][j - 1] = "probeT" /\ Last(c, "click_submit") \in 1..(j - 2))
      /\ Done(c) => res[c].kind = "returned"

\* the probe after the submit click was false, control passed to
\* super.login(), and its failure is what login() returned
C19_Witness ==
  /\ site = "pinnacle" /\ op[1] = "login" /\ Returned(1) /\ ~res[1].success
  /\ Has(1, "click_submit") /\ ViaSuperLogin(1)
  /\ log[1][First(1, "manual") - 1] = "probeF"

\* C20: in BetOnline's challenge wait, a poll whose isLoggedIn() probe is
\* true makes login() save the session and return success at once, without
\* clicking `#kc-login`; the submit control is clicked at most once in a
\* call, and only when the loop ended without that early return.
C20_EarlyReturnSkipsSubmit ==
  \A c \in Calls :
    (site = "betonline" /\ op[c] = "login") =>
      /\ Count(c, "click_submit") <= 1
      /\ loc[c].challenge = "loggedIn" =>
           /\ ~Has(c, "click_submit")
           /\ pc[c] \in {"b_loopSave", "done"}
           /\ log[c][Len(log[c])] \in {"probeT", "saveSession"}
           /\ (Returned(c) /\ ~FaultReported(c)) =>
                (res[c] = LoginSuccess /\ log[c][Len(log[c])] = "saveSession")
      /\ Has(c, "click_submit") => loc[c].challenge \in {"none", "solved", "timeout"}
      /\ loc[c].challenge = "waiting" => ~Has(c, "click_submit")

\* the page came to be logged in during the wait: the call saved the session
\* and returned success with the submit control never clicked
C20_Witness ==
  /\ site = "betonline" /\ op[1] = "login" /\ res[1] = LoginSuccess /\ Done(1)
  /\ loc[1].challenge = "loggedIn" /\ loc[1].elapsed > 0
  /\ Has(1, "type_pass") /\ ~Has(1, "click_submit") /\ Has(1, "saveSession")

\* the logged-out signals an adapter's isLoggedIn() tests: login button, credential field
LoggedOutSignals(s) ==
  CASE s = "pinnacle" ->
         {"button:SIGN IN", "input[placeholder=Username]", "input[type=password]"}
    [] s = "betonline" -> {"button:LOGIN", "#kc-login"}
    [] OTHER -> {"input[placeholder=Account]", "input[name=account]",
                 "button:LOG IN", "input[value=LOG IN]"}

\* the authenticated-only indicators it tests: balance, account menu, logout
\* (Sports411's isLoggedIn() tests none)
AuthIndicators(s) ==
  CASE s = "pinnacle" -> {".account-menu", ".logout"}
    [] s = "betonline" -> {"[class*=balance]"}
    [] OTHER -> {}

\* C21: for every adapter, isLoggedIn() returns false whenever a logged-out
\* signal is present, whatever else is, and true only if an
\* authenticated-only indicator is present; on a page that shows neither it
\* returns false.
C21_ConservativeProbe ==
  \A c \in Calls :
    (op[c] = "isLoggedIn" /\ Returned(c) /\ ~loc[c].changed) =>
      /\ exists(page, LoggedOutSignals(site)) => ~res[c].success
      /\ res[c].success => exists(page, AuthIndicators(site))

\* C22: after any sequence of load, addSite, updateSite and deleteSite every
\* entry of the sites map is stored under the id of the config it holds, so
\* loading what saveSites() writes gives the same map back.
C22_IdsAreKeys ==
  /\ \A i \in 1..Len(sites) : sites[i].val.id = sites[i].key
  /\ LoadInto(<<>>, saveSites(sites).content, "id") = sites

\* C23: when addSite / updateSite / deleteSite calls on one store overlap,
\* then once all of them have completed (none of them faulted) the sites
\* file holds exactly the sites of the in-memory map.
C23_NoLostSave ==
  (/\ \A c \in Calls : Returned(c)
   /\ \E c \in Calls : Has(c, "writeFile")) =>
     files.sites = Written(MapValues(sites))

====
